---- MODULE Spec2Model ----
(***************************************************************************)
(* Model of the analytic core of precin-plus (src/App.tsx):                *)
(*   calculateIQRAverage       - outlier-trimmed (IQR) average             *)
(*   findMinPriceInfo          - minimum price and the distributors at it  *)
(*   RankingDrawer.rankedPrices - dense ranking of one product's prices    *)
(*                                                                         *)
(* JavaScript values are records [k, v]: k is the kind of the value and v  *)
(* the payload of a finite number.  A finite price is an exact decimal,    *)
(* held as an integer count of 0.0001 (so 5.15 is 51500 and one            *)
(* thousandth, the step of toFixed(3), is 10).  Arithmetic on prices is    *)
(* exact; binary floating-point representation error is not modelled.      *)
(***************************************************************************)
EXTENDS Integers, Sequences, FiniteSets

VARIABLES
    priceList,       \* argument of calculateIQRAverage
    avgResult,       \* value returned by calculateIQRAverage
    avgRun,          \* the return path it took, with its q1, q3 and the number
                     \* of prices it averaged
    prices,          \* argument of findMinPriceInfo (a ProductPrices object)
    minInfo,         \* value returned by findMinPriceInfo
    marketData,      \* RankingDrawer prop: sequence of ProductData
    rankingProduct,  \* RankingDrawer prop `product`
    rankedPrices,    \* value of the rankedPrices memo
    op,              \* which computation has run in this state
    \* state of the App component
    distributors,         \* names of the distributors of the last response
    products,             \* names of the products of the last response
    selectedDistributors, \* a Set, as the sequence of its members in
                          \* insertion order
    marketMinPrices,      \* memo: product -> MinPriceInfo
    dynamicAveragePrices, \* memo: product -> average
    comparisonMode,       \* 'min' or 'avg'
    isLoading,
    error,
    marketDate,           \* the day picked in the date input
    debouncedMarketDate,  \* the day the data is fetched for
    debounceTimer,        \* the 800 ms timer of the debounce effect
    fetchEffectPending,   \* debouncedMarketDate was committed, the effect that
                          \* calls fetchAllData has not run yet
    inFlight,             \* runs of fetchAllData waiting at the await, oldest
                          \* first
    dataDate,             \* the day of the run that last stored a response
    latestQuotes,         \* the quotes of the response stored last
    credentials,          \* supabaseUrl and supabaseAnonKey are configured
    \* state of App behind the quote table and the share modal
    allBrandPrices,       \* <<brand, product>> -> price, for the cells that exist
    allBrandPriceInputs,  \* <<brand, product>> -> the text of the input
    isSharing,
    shareRun              \* the last call of executeShareAction: where it is, or
                          \* how it ended

analyticVars == <<priceList, avgResult, avgRun, prices, minInfo, op>>
drawerVars == <<marketData, rankingProduct, rankedPrices>>
appVars == <<distributors, products, selectedDistributors, marketMinPrices,
             dynamicAveragePrices, comparisonMode, isLoading, error, marketDate,
             debouncedMarketDate, debounceTimer, fetchEffectPending, inFlight,
             dataDate, latestQuotes, credentials>>

brandVars == <<allBrandPrices, allBrandPriceInputs>>
shareVars == <<isSharing, shareRun>>
quoteVars == <<brandVars, shareVars>>

vars == <<analyticVars, drawerVars, appVars, quoteVars>>

----------------------------------------------------------------------------
(* Bounds of the model *)

MaxLen == 5            \* longest price list handed to the averager
MaxEntries == 3        \* most prices held by marketData (by a ProductPrices object)
MaxArgs == 2           \* most prices of the product the three computations are run on
MaxRecords == 2        \* most records in one response of the backend
MaxInFlight == 2       \* most runs of fetchAllData started and not finished

----------------------------------------------------------------------------
(* JavaScript values *)

Num(n) == [k |-> "num", v |-> n]
NaN == [k |-> "NaN", v |-> 0]
PosInfinity == [k |-> "Infinity", v |-> 0]
NegInfinity == [k |-> "-Infinity", v |-> 0]
Null == [k |-> "null", v |-> 0]
Undefined == [k |-> "undefined", v |-> 0]
Str == [k |-> "string", v |-> 0]          \* a non-numeric string such as "abc"

\* typeof p === 'number'
TypeofNumber(p) == p.k \in {"num", "NaN", "Infinity", "-Infinity"}

\* isFinite(p), which first converts p with ToNumber: null becomes 0,
\* undefined and a non-numeric string become NaN
IsFinite(p) == p.k \in {"num", "null"}

Abs(n) == IF n < 0 THEN -n ELSE n

\* reduce((acc, val) => acc + val, 0) over finite numbers
RECURSIVE Sum(_)
SumOfEnds(s) == IF s = <<>> THEN 0 ELSE s[1].v + s[Len(s)].v
Sum(s) == IF s = <<>> THEN 0 ELSE Sum(SubSeq(s, 1, Len(s) - 1)) + s[Len(s)].v

\* parseFloat((sum / n).toFixed(3)): the multiple of one thousandth nearest to
\* sum / n, a tie going to the one larger in magnitude
ToFixed3TiesToZero(sum, n) ==
    LET thousandths == (2 * Abs(sum) + 10 * n - 1) \div (20 * n)
    IN  IF sum < 0 THEN -(10 * thousandths) ELSE 10 * thousandths
ToFixed3Truncated(sum, n) ==
    LET thousandths == Abs(sum) \div (10 * n)
    IN  IF sum < 0 THEN -(10 * thousandths) ELSE 10 * thousandths
ToFixed3(sum, n) ==
    LET thousandths == (2 * Abs(sum) + 10 * n) \div (20 * n)
    IN  IF sum < 0 THEN -(10 * thousandths) ELSE 10 * thousandths

\* a < b on numbers: false when either side is NaN (or converts to NaN)
LessThan(a, b) ==
    /\ a.k \in {"num", "Infinity", "-Infinity"}
    /\ b.k \in {"num", "Infinity", "-Infinity"}
    /\ \/ a.k = "-Infinity" /\ b.k # "-Infinity"
       \/ b.k = "Infinity" /\ a.k # "Infinity"
       \/ a.k = "num" /\ b.k = "num" /\ a.v < b.v

\* the comparator (a, b) => a - b as sort reads it: negative, positive, or
\* zero (a NaN difference counts as zero)
CompareDescending(a, b) == IF LessThan(b, a) THEN -1 ELSE IF LessThan(a, b) THEN 1 ELSE 0
CompareNumbers(a, b) == IF LessThan(a, b) THEN -1 ELSE IF LessThan(b, a) THEN 1 ELSE 0

\* [...validPrices].sort((a, b) => a - b): Array.prototype.sort is stable, an
\* element is placed after the elements that do not compare greater than it
RECURSIVE InsertPriceDescending(_, _)
InsertPriceDescending(s, x) ==
    IF s = <<>> THEN <<x>>
    ELSE IF CompareDescending(s[Len(s)], x) <= 0 THEN Append(s, x)
         ELSE Append(InsertPriceDescending(SubSeq(s, 1, Len(s) - 1), x), s[Len(s)])
RECURSIVE InsertPrice(_, _)
InsertPrice(s, x) ==
    IF s = <<>> THEN <<x>>
    ELSE IF CompareNumbers(s[Len(s)], x) <= 0 THEN Append(s, x)
         ELSE Append(InsertPrice(SubSeq(s, 1, Len(s) - 1), x), s[Len(s)])

RECURSIVE SortPrices(_)
SortPrices(s) ==
    IF s = <<>> THEN <<>>
    ELSE InsertPrice(SortPrices(SubSeq(s, 1, Len(s) - 1)), s[Len(s)])

\* priceList.filter(p => typeof p === 'number' && isFinite(p))
ValidPricesNoTypeof(list) == SelectSeq(list, IsFinite)
ValidPrices(list) == SelectSeq(list, LAMBDA p : TypeofNumber(p) /\ IsFinite(p))

\* sortedPrices.filter(price => price >= lowerBound && price <= upperBound),
\* with lowerBound = q1 - 1.5 * iqr and upperBound = q3 + 1.5 * iqr; both sides
\* of each comparison are doubled
FilterStrictlyWithin(sortedPrices, q1, q3) ==
    LET iqr == q3 - q1
    IN  SelectSeq(sortedPrices,
                  LAMBDA price : /\ 2 * price.v > 2 * q1 - 3 * iqr
                                 /\ 2 * price.v < 2 * q3 + 3 * iqr)
FilterUpperOnly(sortedPrices, q1, q3) ==
    LET iqr == q3 - q1
    IN  SelectSeq(sortedPrices, LAMBDA price : 2 * price.v <= 2 * q3 + 3 * iqr)
FilterWithinBounds(sortedPrices, q1, q3) ==
    LET iqr == q3 - q1
    IN  SelectSeq(sortedPrices,
                  LAMBDA price : /\ 2 * price.v >= 2 * q1 - 3 * iqr
                                 /\ 2 * price.v <= 2 * q3 + 3 * iqr)

\* Math.floor(sortedPrices.length / 4) and Math.floor(sortedPrices.length *
\* (3 / 4)), as 1-based positions of a sequence
Q1IndexRoundedUp(n) == ((n + 3) \div 4) + 1
Q1Index(n) == (n \div 4) + 1
Q3IndexMedian(n) == (n \div 2) + 1
Q3Index(n) == ((3 * n) \div 4) + 1

\* validPrices.length < 4
IsSmallSample(n) == n < 4

\* one run of calculateIQRAverage: the value returned, and as `run` the
\* return statement reached, the quartiles and the number of prices averaged
IQRAverageRun(list) ==
    LET validPrices == ValidPrices(list)
    IN  IF Len(validPrices) = 0
        THEN [value |-> Num(0),
              run |-> [path |-> "empty", q1 |-> 0, q3 |-> 0, kept |-> 0]]
        ELSE IF IsSmallSample(Len(validPrices))
        THEN [value |-> Num(ToFixed3(Sum(validPrices), Len(validPrices))),
              run |-> [path |-> "small", q1 |-> 0, q3 |-> 0,
                       kept |-> Len(validPrices)]]
        ELSE LET sortedPrices == SortPrices(validPrices)
                 q1 == sortedPrices[Q1Index(Len(sortedPrices))].v
                 q3 == sortedPrices[Q3Index(Len(sortedPrices))].v
                 filteredPrices == FilterWithinBounds(sortedPrices, q1, q3)
             IN  IF Len(filteredPrices) = 0
                 THEN [value |-> Num(ToFixed3(Sum(sortedPrices), Len(sortedPrices))),
                       run |-> [path |-> "fallback", q1 |-> q1, q3 |-> q3,
                                kept |-> Len(sortedPrices)]]
                 ELSE [value |-> Num(ToFixed3(Sum(filteredPrices),
                                              Len(filteredPrices))),
                       run |-> [path |-> "trimmed", q1 |-> q1, q3 |-> q3,
                                kept |-> Len(filteredPrices)]]

calculateIQRAverage(list) == IQRAverageRun(list).value

----------------------------------------------------------------------------
(* findMinPriceInfo.  A ProductPrices object is the sequence of its entries *)
(* [distributor, price] in key order, the distributors all different.      *)

\* ToNumber, applied by Math.min to each argument
ToNumber(p) ==
    IF p.k = "null" THEN Num(0)
    ELSE IF p.k \in {"undefined", "string"} THEN NaN
    ELSE p

\* Math.min(...values): Infinity without arguments, NaN if any argument
\* converts to NaN, otherwise the least argument
MathMinOfFirst(values) ==
    IF Len(values) = 0 THEN PosInfinity ELSE ToNumber(values[1])
MathMin(values) ==
    LET numbers == {ToNumber(values[i]) : i \in 1..Len(values)}
    IN  IF NaN \in numbers THEN NaN
        ELSE IF numbers = {} THEN PosInfinity
        ELSE CHOOSE m \in numbers : \A n \in numbers : ~LessThan(n, m)

\* price === minPrice: same type and same value, NaN equal to nothing
StrictEquals(a, b) == a.k # "NaN" /\ a = b

\* Object.values(prices)
ObjectValues(entries) == [i \in 1..Len(entries) |-> entries[i].price]

\* the sentinel returned for an object without keys
NoMinPriceInfoZero == [minPrice |-> Num(0), distributors |-> <<>>]
NoMinPriceInfo == [minPrice |-> PosInfinity, distributors |-> <<>>]

\* Object.entries(prices).filter(([, price]) => price === minPrice)
\*                       .map(([distributor]) => distributor)
DistributorsAt(entries, minPrice) ==
    LET matching == SelectSeq(entries, LAMBDA e : StrictEquals(e.price, minPrice))
    IN  [i \in 1..Len(matching) |-> matching[i].distributor]

findMinPriceInfo(entries) ==
    IF Len(entries) = 0 THEN NoMinPriceInfo
    ELSE LET minPrice == MathMin(ObjectValues(entries))
         IN  [minPrice |-> minPrice,
              distributors |-> DistributorsAt(entries, minPrice)]

----------------------------------------------------------------------------
(* RankingDrawer.rankedPrices *)

\* the value of `product` when no product is selected
NoProduct == "null"

\* .filter(([, price]) => price !== null && price !== undefined &&
\*                        typeof price === 'number')
RankableNotNull(e) == e.price.k # "null"
Rankable(e) ==
    e.price.k # "null" /\ e.price.k # "undefined" /\ TypeofNumber(e.price)

\* .sort(([, a], [, b]) => a - b): stable, as SortPrices
RECURSIVE InsertEntryDescending(_, _)
InsertEntryDescending(s, e) ==
    IF s = <<>> THEN <<e>>
    ELSE IF CompareDescending(s[Len(s)].price, e.price) <= 0 THEN Append(s, e)
         ELSE Append(InsertEntryDescending(SubSeq(s, 1, Len(s) - 1), e), s[Len(s)])
RECURSIVE InsertEntry(_, _)
InsertEntry(s, e) ==
    IF s = <<>> THEN <<e>>
    ELSE IF CompareNumbers(s[Len(s)].price, e.price) <= 0 THEN Append(s, e)
         ELSE Append(InsertEntry(SubSeq(s, 1, Len(s) - 1), e), s[Len(s)])

RECURSIVE SortEntries(_)
SortEntries(s) ==
    IF s = <<>> THEN <<>>
    ELSE InsertEntry(SortEntries(SubSeq(s, 1, Len(s) - 1)), s[Len(s)])

\* one step of the forEach: the rank given to an entry of price `price` when
\* the entry before it had rank `rank` and price `lastPrice`
NextRankAlwaysUp(rank, lastPrice, price) == rank + 1
NextRank(rank, lastPrice, price) ==
    IF LessThan(lastPrice, price) THEN rank + 1 ELSE rank

\* the forEach over sortedPrices, with rank = 0 and lastPrice = -Infinity
\* before the first entry
RECURSIVE RankEntries(_)
RankEntries(sortedPrices) ==
    IF sortedPrices = <<>> THEN <<>>
    ELSE LET before == RankEntries(SubSeq(sortedPrices, 1, Len(sortedPrices) - 1))
             e == sortedPrices[Len(sortedPrices)]
             rank == IF before = <<>> THEN 0 ELSE before[Len(before)].rank
             lastPrice == IF before = <<>> THEN NegInfinity
                          ELSE before[Len(before)].price
         IN  Append(before, [distributor |-> e.distributor, price |-> e.price,
                             rank |-> NextRank(rank, lastPrice, e.price)])

\* marketData.find(p => p.produto === product): the position of the first
\* match, 0 when there is none
FindProductOrFirst(data, product) ==
    IF \E i \in 1..Len(data) : data[i].produto = product
    THEN CHOOSE i \in 1..Len(data) :
            /\ data[i].produto = product
            /\ \A j \in 1..(i - 1) : data[j].produto # product
    ELSE IF Len(data) > 0 THEN 1 ELSE 0
FindProduct(data, product) ==
    IF \E i \in 1..Len(data) : data[i].produto = product
    THEN CHOOSE i \in 1..Len(data) :
            /\ data[i].produto = product
            /\ \A j \in 1..(i - 1) : data[j].produto # product
    ELSE 0

RankedPricesOf(product, data) ==
    IF product = NoProduct THEN <<>>
    ELSE IF FindProduct(data, product) = 0 THEN <<>>
    ELSE LET sortedPrices ==
                 SortEntries(SelectSeq(data[FindProduct(data, product)].prices,
                                       Rankable))
         IN  IF Len(sortedPrices) = 0 THEN <<>> ELSE RankEntries(sortedPrices)

----------------------------------------------------------------------------
(* Inputs of the averager *)

\* finite prices, in units of 0.0001: a negative one, ties, values whose mean
\* falls on half a thousandth, and one far from the rest
PriceValues == {-5, 10, 30, 204}
NonFinite == {NaN, PosInfinity, NegInfinity, Null, Undefined, Str}
AverageInputs == {Num(n) : n \in PriceValues} \cup NonFinite

----------------------------------------------------------------------------
(* Inputs of the minimum finder and of the ranker *)

Distributors == {"Ale", "Ipiranga", "Shell", "Vibra"}
Products == {"Etanol", "Diesel S10"}

\* what a price slot of a ProductPrices object can hold when it comes out of
\* a JSON response: a finite number, or something that is not a number
MapValues == {Num(10), Num(30), Num(204), Null, Undefined, Str}

\* the ProductPrices objects with k keys
PriceMapsOfSize(k) ==
    {m \in [1..k -> [distributor : Distributors, price : MapValues]] :
        \A i, j \in 1..k : i # j => m[i].distributor # m[j].distributor}

\* marketData holding n prices in all: one ProductData per product, in
\* either order, or a single product, or nothing
IsMarketData(data, n) ==
    \/ data = <<>>
    \/ \E p \in Products : \E k \in 0..n : \E m \in PriceMapsOfSize(k) :
          data = <<[produto |-> p, prices |-> m]>>
    \/ \E p1 \in Products : \E p2 \in Products \ {p1} :
       \E k1 \in 0..n : \E k2 \in 0..(n - k1) :
       \E m1 \in PriceMapsOfSize(k1) : \E m2 \in PriceMapsOfSize(k2) :
          data = <<[produto |-> p1, prices |-> m1],
                   [produto |-> p2, prices |-> m2]>>

----------------------------------------------------------------------------
(* The App component: its state, its memos and what it hands to the quote  *)
(* table.                                                                  *)

Today == "today"
Days == {"today", "yesterday"}
NoError == "null"

\* the initial values of the useState calls
AppNotMounted ==
    /\ distributors = <<>>
    /\ products = <<>>
    /\ selectedDistributors = <<>>
    /\ marketMinPrices = <<>>
    /\ dynamicAveragePrices = <<>>
    /\ comparisonMode = "min"
    /\ isLoading = TRUE
    /\ error = NoError
    /\ marketDate = Today
    /\ debouncedMarketDate = Today
    /\ debounceTimer = "none"
    /\ fetchEffectPending = FALSE
    /\ inFlight = <<>>
    /\ dataDate = "none"
    /\ latestQuotes = {}
    /\ credentials = TRUE
    /\ allBrandPrices = <<>>
    /\ allBrandPriceInputs = <<>>
    /\ isSharing = FALSE
    /\ shareRun = "none"

Members(seq) == {seq[i] : i \in 1..Len(seq)}

\* array.indexOf(x), counted from 1, 0 when x is absent
IndexOf(seq, x) ==
    IF x \in Members(seq)
    THEN CHOOSE i \in 1..Len(seq) : seq[i] = x /\ \A j \in 1..(i - 1) : seq[j] # x
    ELSE 0

\* prices[distributor]: undefined when the object has no such key
PriceOf(entries, distributor) ==
    IF \E i \in 1..Len(entries) : entries[i].distributor = distributor
    THEN entries[CHOOSE i \in 1..Len(entries) :
                     entries[i].distributor = distributor].price
    ELSE Undefined

\* the filteredPrices object of the marketMinPrices memo: the selected
\* distributors in the order of the Set, those without a price left out
FilteredPricesAll(entries, selected) == entries
FilteredPrices(entries, selected) ==
    LET quoting == SelectSeq(selected,
                             LAMBDA d : PriceOf(entries, d) # Undefined)
    IN  [i \in 1..Len(quoting) |->
            [distributor |-> quoting[i], price |-> PriceOf(entries, quoting[i])]]

\* the marketMinPrices memo
MarketMinPricesOf(data, selected) ==
    [produto \in {data[i].produto : i \in 1..Len(data)} |->
        findMinPriceInfo(FilteredPrices(
            data[CHOOSE i \in 1..Len(data) : data[i].produto = produto].prices,
            selected))]

\* the priceList of the dynamicAveragePrices memo
SelectedPriceList(entries, selected) ==
    SelectSeq([i \in 1..Len(selected) |-> PriceOf(entries, selected[i])],
              LAMBDA p : p # Undefined /\ p # Null)

\* the dynamicAveragePrices memo
DynamicAveragePricesOf(data, selected) ==
    [produto \in {data[i].produto : i \in 1..Len(data)} |->
        calculateIQRAverage(SelectedPriceList(
            data[CHOOSE i \in 1..Len(data) : data[i].produto = produto].prices,
            selected))]

\* x || 0 for a number or a missing value x
OrZero(x) ==
    IF x \in {Undefined, Null, NaN, Num(0)} THEN Num(0) ELSE x

\* a - b for a finite a and a b that is finite or Infinity
Minus(a, b) ==
    IF b = PosInfinity THEN NegInfinity ELSE Num(a.v - b.v)

\* comparisonPrice of the quote table for one product:
\* isAvgMode ? (averagePrices[produto] || 0)
\*           : (marketMinPrices[produto]?.minPrice || 0)
ComparisonPrice(mode, averages, minimums, produto) ==
    IF mode = "avg"
    THEN OrZero(IF produto \in DOMAIN averages THEN averages[produto]
                ELSE Undefined)
    ELSE OrZero(IF produto \in DOMAIN minimums THEN minimums[produto].minPrice
                ELSE Undefined)

----------------------------------------------------------------------------
(* The brand prices of the quote table.  A text is the sequence of its     *)
(* characters, a price object the function from its <<brand, product>>     *)
(* cells to their values.                                                  *)

Brands == {"Shell", "Branca/Indefinida"}

DigitCharacters == <<"0", "1", "2", "3", "4", "5", "6", "7", "8", "9">>
IsDigit(c) == c \in Members(DigitCharacters)
DigitValue(c) == IndexOf(DigitCharacters, c) - 1

\* the demo prices and inputs of the brands and products of the model; with
\* nothing saved in localStorage they are what fetchAllData loads
initialPricesForDemo ==
    [cell \in {<<"Shell", "Etanol">>, <<"Shell", "Diesel S10">>} |->
        IF cell[2] = "Etanol" THEN Num(38150) ELSE Num(54290)]
initialInputsForDemo ==
    [cell \in {<<"Shell", "Etanol">>, <<"Shell", "Diesel S10">>} |->
        IF cell[2] = "Etanol" THEN <<"3", ",", "8", "1", "5">>
        ELSE <<"5", ",", "4", "2", "9">>]

\* value.replace(/\D/g, '').slice(0, 4)
DigitsOf(value) ==
    LET digits == SelectSeq(value, IsDigit)
    IN  SubSeq(digits, 1, IF Len(digits) < 4 THEN Len(digits) ELSE 4)

\* digits.length > 1 ? `${digits.slice(0, 1)},${digits.slice(1)}` : digits
FormattedValue(digits) ==
    IF Len(digits) > 1 THEN <<digits[1], ",">> \o Tail(digits) ELSE digits

\* digits.padEnd(4, '0')
PadEnd4(digits) ==
    [i \in 1..(IF Len(digits) < 4 THEN 4 ELSE Len(digits)) |->
        IF i <= Len(digits) THEN digits[i] ELSE "0"]

\* parseInt(text, 10) of a text of digits
RECURSIVE ParseInt(_)
ParseInt(text) ==
    IF text = <<>> THEN 0
    ELSE 10 * ParseInt(SubSeq(text, 1, Len(text) - 1)) + DigitValue(text[Len(text)])

\* parseInt(digits.padEnd(4, '0'), 10) / 1000, a number of thousandths, as a
\* price
PriceWithoutPadding(digits) == Num(10 * ParseInt(digits))
PriceOfDigits(digits) == Num(10 * ParseInt(PadEnd4(digits)))

\* { ...p, [brand]: { ...p[brand], [product]: value } }
WithCell(p, brand, product, value) ==
    [cell \in DOMAIN p \cup {<<brand, product>>} |->
        IF cell = <<brand, product>> THEN value ELSE p[cell]]

----------------------------------------------------------------------------
(* fetchAllData: from the records of a response to the state of App *)

\* the records the responses are made of: quotes of two products by two
\* distributors, and records that lack a product, a distributor or a price
RawRecords ==
    { [fuel_type |-> "Etanol",     distribuidora |-> "Ale",   price |-> Num(10)],
      [fuel_type |-> "Etanol",     distribuidora |-> "Shell", price |-> Num(10)],
      [fuel_type |-> "Etanol",     distribuidora |-> "Shell", price |-> Num(30)],
      [fuel_type |-> "Diesel S10", distribuidora |-> "Ale",   price |-> Num(30)],
      [fuel_type |-> "Etanol",     distribuidora |-> "Ale",   price |-> Null],
      [fuel_type |-> "",           distribuidora |-> "Shell", price |-> Num(10)],
      [fuel_type |-> "Diesel S10", distribuidora |-> "",      price |-> Num(10)] }

\* the record is skipped by the forEach of fetchAllData
SkippedRecord(record) ==
    \/ record.fuel_type = ""
    \/ record.distribuidora = ""
    \/ record.price = Null

\* object[distributor] = price: a new key goes last, a key already there
\* keeps its place
SetPriceKeepingFirst(entries, distributor, price) ==
    IF \E i \in 1..Len(entries) : entries[i].distributor = distributor
    THEN entries
    ELSE Append(entries, [distributor |-> distributor, price |-> price])
SetPrice(entries, distributor, price) ==
    IF \E i \in 1..Len(entries) : entries[i].distributor = distributor
    THEN [i \in 1..Len(entries) |->
             IF entries[i].distributor = distributor
             THEN [distributor |-> distributor, price |-> price]
             ELSE entries[i]]
    ELSE Append(entries, [distributor |-> distributor, price |-> price])

\* one step of the forEach over rawData, on productMap as the sequence of its
\* entries
AddRecord(productMap, record) ==
    IF SkippedRecord(record) THEN productMap
    ELSE IF \E i \in 1..Len(productMap) : productMap[i].produto = record.fuel_type
    THEN [i \in 1..Len(productMap) |->
             IF productMap[i].produto = record.fuel_type
             THEN [produto |-> productMap[i].produto,
                   prices |-> SetPrice(productMap[i].prices,
                                       record.distribuidora, record.price)]
             ELSE productMap[i]]
    ELSE Append(productMap,
                [produto |-> record.fuel_type,
                 prices |-> SetPrice(<<>>, record.distribuidora, record.price)])

RECURSIVE ProductMapOf(_)
ProductMapOf(rawData) ==
    IF rawData = <<>> THEN <<>>
    ELSE AddRecord(ProductMapOf(SubSeq(rawData, 1, Len(rawData) - 1)),
                   rawData[Len(rawData)])

DistributorSetOf(rawData) ==
    {rawData[i].distribuidora :
        i \in {j \in 1..Len(rawData) : ~SkippedRecord(rawData[j])}}

ProductSetOf(rawData) ==
    {rawData[i].fuel_type :
        i \in {j \in 1..Len(rawData) : ~SkippedRecord(rawData[j])}}

ProductOrder ==
    <<"Gasolina Comum", "Gasolina Aditivada", "Etanol", "Diesel S10",
      "Diesel S500">>

\* the names of the model in the order of their UTF-16 code units, which is
\* also their order under localeCompare
Alphabetical ==
    <<"Ale", "Diesel S10", "Etanol", "Ipiranga", "Shell", "Vibra">>

\* the comparator of Array.prototype.sort() without an argument
DefaultCompare(a, b) == IndexOf(Alphabetical, a) - IndexOf(Alphabetical, b)

\* customSort(a, b); IndexOf is 0 where indexOf is -1
CustomSort(a, b) ==
    LET indexA == IndexOf(ProductOrder, a)
        indexB == IndexOf(ProductOrder, b)
    IN  IF indexA # 0 /\ indexB # 0 THEN indexA - indexB
        ELSE IF indexA # 0 THEN -1
        ELSE IF indexB # 0 THEN 1
        ELSE DefaultCompare(a, b)

\* Array.from(productSet).sort(customSort): the members compare unequal, so
\* the sorted array is the one arrangement in ascending order
NewProducts(rawData) ==
    LET productSet == ProductSetOf(rawData)
    IN  CHOOSE array \in [1..Cardinality(productSet) -> productSet] :
            \A i, j \in 1..Cardinality(productSet) :
                i < j => CustomSort(array[i], array[j]) < 0

\* Array.from(distributorSet).sort()
NewDistributors(rawData) ==
    LET distributorSet == DistributorSetOf(rawData)
    IN  CHOOSE array \in [1..Cardinality(distributorSet) -> distributorSet] :
            \A i, j \in 1..Cardinality(distributorSet) :
                i < j => DefaultCompare(array[i], array[j]) < 0

\* the entries of productMap sorted by customSort on produto
SortedMarketData(rawData) ==
    LET productMap == ProductMapOf(rawData)
        order == NewProducts(rawData)
    IN  [i \in 1..Len(order) |->
            productMap[CHOOSE j \in 1..Len(productMap) :
                           productMap[j].produto = order[i]]]

\* what a response says: its records that have a product, a distributor and
\* a price, a later record of the same product and distributor replacing an
\* earlier one
QuotesOf(rawData) ==
    {rawData[i] :
        i \in {j \in 1..Len(rawData) :
                  /\ rawData[j].fuel_type # ""
                  /\ rawData[j].distribuidora # ""
                  /\ rawData[j].price # Null
                  /\ \A k \in (j + 1)..Len(rawData) :
                         \/ rawData[k].fuel_type # rawData[j].fuel_type
                         \/ rawData[k].distribuidora # rawData[j].distribuidora
                         \/ rawData[k].price = Null}}

\* setSelectedDistributors at the end of a successful run
SelectionAfterFetch(isToday, prev, newDistributors) ==
    IF isToday
    THEN (IF Len(prev) > 0 THEN prev ELSE newDistributors)
    ELSE newDistributors

----------------------------------------------------------------------------
(* The computations as steps: each specification draws the argument of one *)
(* function in its initial state and then applies the function.           *)

NothingComputed ==
    /\ op = "idle"
    /\ avgResult = Undefined
    /\ avgRun = Undefined
    /\ minInfo = Undefined
    /\ rankedPrices = <<>>

Idle ==
    /\ NothingComputed
    /\ AppNotMounted

InitAverager ==
    /\ Idle
    /\ \E n \in 0..MaxLen : priceList \in [1..n -> AverageInputs]
    /\ prices = <<>>
    /\ marketData = <<>>
    /\ rankingProduct = NoProduct

InitMinFinder ==
    /\ Idle
    /\ priceList = <<>>
    /\ \E k \in 0..MaxEntries : prices \in PriceMapsOfSize(k)
    /\ marketData = <<>>
    /\ rankingProduct = NoProduct

InitRanker ==
    /\ Idle
    /\ priceList = <<>>
    /\ prices = <<>>
    /\ IsMarketData(marketData, MaxEntries)
    /\ rankingProduct \in Products \cup {NoProduct}

\* what the caller's array or object holds once the call has returned.  The
\* averager sorts [...validPrices], a copy of the array that filter made; the
\* minimum finder only reads; the ranker sorts the array that Object.entries
\* and filter made.
PriceListSortedInPlace(list) == SortPrices(list)
PriceListAfterAverage(list) == list
PricesAfterFindMin(entries) == entries
MarketDataAfterRanking(product, data) == data

\* avg = calculateIQRAverage(priceList)
CallCalculateIQRAverage ==
    /\ avgResult' = IQRAverageRun(priceList).value
    /\ avgRun' = IQRAverageRun(priceList).run
    /\ priceList' = PriceListAfterAverage(priceList)
    /\ op' = "calculateIQRAverage"
    /\ UNCHANGED <<prices, minInfo, marketData, rankingProduct, rankedPrices>>
    /\ UNCHANGED appVars
    /\ UNCHANGED quoteVars

\* info = findMinPriceInfo(prices)
CallFindMinPriceInfo ==
    /\ minInfo' = findMinPriceInfo(prices)
    /\ prices' = PricesAfterFindMin(prices)
    /\ op' = "findMinPriceInfo"
    /\ UNCHANGED <<priceList, avgResult, avgRun, marketData, rankingProduct,
                   rankedPrices>>
    /\ UNCHANGED appVars
    /\ UNCHANGED quoteVars

\* the rankedPrices memo of RankingDrawer is evaluated
ComputeRankedPrices ==
    /\ rankedPrices' = RankedPricesOf(rankingProduct, marketData)
    /\ marketData' = MarketDataAfterRanking(rankingProduct, marketData)
    /\ op' = "rankedPrices"
    /\ UNCHANGED <<priceList, avgResult, avgRun, prices, minInfo, rankingProduct>>
    /\ UNCHANGED appVars
    /\ UNCHANGED quoteVars

SpecAverager == InitAverager /\ [][CallCalculateIQRAverage]_vars
SpecMinFinder == InitMinFinder /\ [][CallFindMinPriceInfo]_vars
SpecRanker == InitRanker /\ [][ComputeRankedPrices]_vars

\* the three computations run on the prices of one product, as App and
\* RankingDrawer run them: the minimum finder on the product's mapping, the
\* averager on the mapping's values, the ranker on marketData
InitAnalytics ==
    /\ Idle
    /\ \E k \in 0..MaxArgs : prices \in PriceMapsOfSize(k)
    /\ priceList = ObjectValues(prices)
    /\ \/ marketData = <<>>
       \/ \E p \in Products : marketData = <<[produto |-> p, prices |-> prices]>>
    /\ rankingProduct \in Products \cup {NoProduct}

NextAnalytics ==
    \/ CallCalculateIQRAverage
    \/ CallFindMinPriceInfo
    \/ ComputeRankedPrices

SpecAnalytics == InitAnalytics /\ [][NextAnalytics]_vars

----------------------------------------------------------------------------
(* The App component as a state machine: the handlers of the user's        *)
(* events, the debounce timer and the runs of fetchAllData.                *)

\* the marketData prop of RankingDrawer: marketData={marketData}
DrawerMarketDataSelected(data, selected) ==
    [i \in 1..Len(data) |->
        [produto |-> data[i].produto,
         prices |-> SelectSeq(data[i].prices,
                              LAMBDA e : e.distributor \in Members(selected))]]
DrawerMarketData(data, selected) == data

\* App renders the page, neither the loading screen nor the error screen
PageShown == ~isLoading /\ error = NoError

\* runs of fetchAllData started or about to be started
RunsUnderWay ==
    Len(inFlight) + (IF fetchEffectPending THEN 1 ELSE 0)

\* the render that follows a change of marketData or selectedDistributors
\* evaluates both memos again
Render(data, selected) ==
    /\ marketData' = data
    /\ selectedDistributors' = selected
    /\ marketMinPrices' = MarketMinPricesOf(data, selected)
    /\ dynamicAveragePrices' = DynamicAveragePricesOf(data, selected)

\* the state once App is mounted and its effects have run: the debounce
\* effect has set its timer and fetchAllData has run up to its await, or to
\* its return when the credentials are missing
InitApp ==
    /\ NothingComputed
    /\ priceList = <<>>
    /\ prices = <<>>
    /\ marketData = <<>>
    /\ rankingProduct = NoProduct
    /\ distributors = <<>>
    /\ products = <<>>
    /\ selectedDistributors = <<>>
    /\ marketMinPrices = <<>>
    /\ dynamicAveragePrices = <<>>
    /\ comparisonMode = "min"
    /\ marketDate = Today
    /\ debouncedMarketDate = Today
    /\ debounceTimer = "same"
    /\ fetchEffectPending = FALSE
    /\ dataDate = "none"
    /\ latestQuotes = {}
    /\ credentials \in BOOLEAN
    /\ isLoading = credentials
    /\ error = IF credentials THEN NoError ELSE "credentials"
    /\ inFlight = IF credentials THEN <<[date |-> Today, isToday |-> TRUE]>>
                  ELSE <<>>
    /\ allBrandPrices = <<>>
    /\ allBrandPriceInputs = <<>>
    /\ isSharing = FALSE
    /\ shareRun = "none"

\* the user picks another day in the date input; the debounce effect clears
\* its timer and sets a new one.  The page is still shown, and the input with
\* it, between the commit of a new debouncedMarketDate and the run of the
\* effect that calls fetchAllData.
handleMarketDateChange(date) ==
    /\ PageShown
    /\ date # marketDate
    /\ RunsUnderWay < MaxInFlight
    /\ marketDate' = date
    /\ debounceTimer' = "new"
    /\ UNCHANGED <<analyticVars, drawerVars, distributors, products,
                   selectedDistributors, marketMinPrices, dynamicAveragePrices,
                   comparisonMode, isLoading, error, debouncedMarketDate,
                   fetchEffectPending, inFlight, dataDate, latestQuotes,
                   credentials>>
    /\ UNCHANGED quoteVars

\* the timer fires: setDebouncedMarketDate(marketDate).  The Date set at mount
\* is the one debouncedMarketDate already holds, any later one is a new
\* object, for which the effect that calls fetchAllData is scheduled.
DebounceTimeout ==
    /\ debounceTimer # "none"
    /\ ~fetchEffectPending
    /\ debounceTimer' = "none"
    /\ debouncedMarketDate' = marketDate
    /\ fetchEffectPending' = (debounceTimer = "new")
    /\ UNCHANGED <<analyticVars, drawerVars, distributors, products,
                   selectedDistributors, marketMinPrices, dynamicAveragePrices,
                   comparisonMode, isLoading, error, marketDate, inFlight,
                   dataDate, latestQuotes, credentials>>
    /\ UNCHANGED quoteVars

\* the effect runs fetchAllData up to its await, or to its return when the
\* credentials are missing
FetchAllDataStarts ==
    /\ fetchEffectPending
    /\ fetchEffectPending' = FALSE
    /\ IF credentials
       THEN /\ isLoading' = TRUE
            /\ error' = NoError
            /\ inFlight' = Append(inFlight,
                                  [date |-> debouncedMarketDate,
                                   isToday |-> debouncedMarketDate = Today])
       ELSE /\ isLoading' = FALSE
            /\ error' = "credentials"
            /\ inFlight' = inFlight
    /\ UNCHANGED <<analyticVars, drawerVars, distributors, products,
                   selectedDistributors, marketMinPrices, dynamicAveragePrices,
                   comparisonMode, marketDate, debouncedMarketDate,
                   debounceTimer, dataDate, latestQuotes, credentials>>
    /\ UNCHANGED quoteVars

WithoutRun(runs, i) ==
    [j \in 1..(Len(runs) - 1) |-> IF j < i THEN runs[j] ELSE runs[j + 1]]

\* both queries of run i answer without an error, the prices query with
\* rawData: fetchAllData continues after its await to its end
FetchAllDataSucceeds(i, rawData) ==
    /\ i \in 1..Len(inFlight)
    /\ (~inFlight[i].isToday => rawData = <<>>)
    /\ inFlight' = WithoutRun(inFlight, i)
    /\ LET newDistributors == NewDistributors(rawData)
       IN  /\ distributors' = newDistributors
           /\ products' = NewProducts(rawData)
           /\ Render(SortedMarketData(rawData),
                     SelectionAfterFetch(inFlight[i].isToday,
                                         selectedDistributors, newDistributors))
    /\ rankedPrices' = RankedPricesOf(rankingProduct,
                           DrawerMarketData(marketData', selectedDistributors'))
    /\ isLoading' = FALSE
    /\ dataDate' = inFlight[i].date
    /\ latestQuotes' = QuotesOf(rawData)
    /\ UNCHANGED <<analyticVars, rankingProduct, comparisonMode,
                   error, marketDate, debouncedMarketDate, debounceTimer,
                   fetchEffectPending, credentials>>
    /\ allBrandPrices' = initialPricesForDemo
    /\ allBrandPriceInputs' = initialInputsForDemo
    /\ UNCHANGED shareVars

\* marketData once the error branch of fetchAllData has run: the branch
\* calls setError only
MarketDataClearedByError(data) == <<>>
MarketDataAfterError(data) == data

\* a query of run i answers with an error
FetchAllDataFails(i) ==
    /\ i \in 1..Len(inFlight)
    /\ inFlight' = WithoutRun(inFlight, i)
    /\ error' = "fetch"
    /\ isLoading' = FALSE
    /\ marketData' = MarketDataAfterError(marketData)
    /\ UNCHANGED <<analyticVars, rankingProduct, rankedPrices, distributors, products,
                   selectedDistributors, marketMinPrices, dynamicAveragePrices,
                   comparisonMode, marketDate, debouncedMarketDate,
                   debounceTimer, fetchEffectPending, dataDate, latestQuotes,
                   credentials>>
    /\ UNCHANGED quoteVars

\* the user ticks or unticks the checkbox of a distributor
handleDistributorSelection(distributor, isSelected) ==
    /\ PageShown
    /\ distributor \in Members(distributors)
    /\ isSelected = (distributor \notin Members(selectedDistributors))
    /\ Render(marketData,
              IF isSelected
              THEN (IF distributor \in Members(selectedDistributors)
                    THEN selectedDistributors
                    ELSE Append(selectedDistributors, distributor))
              ELSE SelectSeq(selectedDistributors,
                             LAMBDA d : d # distributor))
    /\ UNCHANGED <<analyticVars, rankingProduct, rankedPrices, distributors,
                   products, comparisonMode, isLoading, error, marketDate,
                   debouncedMarketDate, debounceTimer, fetchEffectPending,
                   inFlight, dataDate, latestQuotes,
                   credentials>>
    /\ UNCHANGED quoteVars

handleSelectAllDistributors ==
    /\ PageShown
    /\ Render(marketData, distributors)
    /\ UNCHANGED <<analyticVars, rankingProduct, rankedPrices, distributors,
                   products, comparisonMode, isLoading, error, marketDate,
                   debouncedMarketDate, debounceTimer, fetchEffectPending,
                   inFlight, dataDate, latestQuotes,
                   credentials>>
    /\ UNCHANGED quoteVars

handleClearAllDistributors ==
    /\ PageShown
    /\ Render(marketData, <<>>)
    /\ UNCHANGED <<analyticVars, rankingProduct, rankedPrices, distributors,
                   products, comparisonMode, isLoading, error, marketDate,
                   debouncedMarketDate, debounceTimer, fetchEffectPending,
                   inFlight, dataDate, latestQuotes,
                   credentials>>
    /\ UNCHANGED quoteVars

handleModeToggle ==
    /\ PageShown
    /\ comparisonMode' = IF comparisonMode = "min" THEN "avg" ELSE "min"
    /\ UNCHANGED <<analyticVars, drawerVars, distributors, products,
                   selectedDistributors, marketMinPrices, dynamicAveragePrices,
                   isLoading, error, marketDate, debouncedMarketDate,
                   debounceTimer, fetchEffectPending, inFlight, dataDate,
                   latestQuotes, credentials>>
    /\ UNCHANGED quoteVars

\* the responses of the backend
Responses == UNION {[1..n -> RawRecords] : n \in 0..MaxRecords}

\* what fetchAllData stores of a response
StoredOf(rawData) ==
    [newProducts |-> NewProducts(rawData),
     newDistributors |-> NewDistributors(rawData),
     sortedMarketData |-> SortedMarketData(rawData),
     quotes |-> QuotesOf(rawData)]

\* one response for each value of StoredOf: a run that succeeds leaves the
\* same state for two responses of which it stores the same
ResponsesApart ==
    {CHOOSE rawData \in Responses : StoredOf(rawData) = stored :
        stored \in {StoredOf(rawData) : rawData \in Responses}}

NextApp ==
    \/ \E date \in Days : handleMarketDateChange(date)
    \/ DebounceTimeout
    \/ FetchAllDataStarts
    \/ \E i \in 1..Len(inFlight) : \E rawData \in ResponsesApart :
           FetchAllDataSucceeds(i, rawData)
    \/ \E i \in 1..Len(inFlight) : FetchAllDataFails(i)
    \/ \E distributor \in Distributors : \E isSelected \in BOOLEAN :
           handleDistributorSelection(distributor, isSelected)
    \/ handleSelectAllDistributors
    \/ handleClearAllDistributors
    \/ handleModeToggle

SpecApp == InitApp /\ [][NextApp]_vars

----------------------------------------------------------------------------
(* The ranking drawer inside App *)

\* the page as it is once App is mounted and its first run of fetchAllData
\* has stored a response: every fetched distributor selected, no product
\* ranked
InitDrawer ==
    /\ NothingComputed
    /\ priceList = <<>>
    /\ prices = <<>>
    /\ rankingProduct = NoProduct
    /\ \E n \in 0..MaxRecords : \E rawData \in [1..n -> RawRecords] :
        /\ marketData = SortedMarketData(rawData)
        /\ distributors = NewDistributors(rawData)
        /\ products = NewProducts(rawData)
        /\ selectedDistributors = NewDistributors(rawData)
        /\ marketMinPrices = MarketMinPricesOf(marketData, selectedDistributors)
        /\ dynamicAveragePrices
               = DynamicAveragePricesOf(marketData, selectedDistributors)
        /\ latestQuotes = QuotesOf(rawData)
    /\ allBrandPrices = initialPricesForDemo
    /\ allBrandPriceInputs = initialInputsForDemo
    /\ isSharing = FALSE
    /\ shareRun = "none"
    /\ comparisonMode = "min"
    /\ isLoading = FALSE
    /\ error = NoError
    /\ marketDate = Today
    /\ debouncedMarketDate = Today
    /\ debounceTimer = "none"
    /\ fetchEffectPending = FALSE
    /\ inFlight = <<>>
    /\ dataDate = Today
    /\ credentials = TRUE

\* the user clicks a product of the ranking sidebar; the drawer renders and
\* evaluates its rankedPrices memo
handleRankingProductSelect(product) ==
    /\ PageShown
    /\ product \in Members(products)
    /\ rankingProduct' = IF rankingProduct = product THEN NoProduct ELSE product
    /\ rankedPrices' = RankedPricesOf(rankingProduct',
                           DrawerMarketData(marketData, selectedDistributors))
    /\ UNCHANGED <<analyticVars, marketData, appVars, quoteVars>>

\* onClose of the drawer
CloseRankingDrawer ==
    /\ PageShown
    /\ rankingProduct # NoProduct
    /\ rankingProduct' = NoProduct
    /\ rankedPrices' = RankedPricesOf(rankingProduct',
                           DrawerMarketData(marketData, selectedDistributors))
    /\ UNCHANGED <<analyticVars, marketData, appVars, quoteVars>>

NextDrawer ==
    \/ \E product \in Products : handleRankingProductSelect(product)
    \/ CloseRankingDrawer
    \/ \E distributor \in Distributors : \E isSelected \in BOOLEAN :
           handleDistributorSelection(distributor, isSelected)
    \/ handleSelectAllDistributors
    \/ handleClearAllDistributors
    \/ handleModeToggle

SpecDrawer == InitDrawer /\ [][NextDrawer]_vars

----------------------------------------------------------------------------
(* The quote table and the share modal inside App *)

\* what the user can have in a price input when its change event fires
TypedValues ==
    { <<>>, <<"5">>, <<"0">>, <<"a">>, <<"5", "2">>, <<"0", "5">>,
      <<"5", ",", "2", "5">>, <<"R", "$", "5", ",", "2", "5", "3">>,
      <<"5", ",", "2", "5", "3", "9">> }

\* the response behind the page of the quote table: both products quoted
QuotedResponse ==
    << [fuel_type |-> "Etanol",     distribuidora |-> "Ale", price |-> Num(10)],
       [fuel_type |-> "Diesel S10", distribuidora |-> "Ale", price |-> Num(30)] >>

\* the page as it is once App is mounted and its first run of fetchAllData
\* has stored QuotedResponse and loaded the demo prices
InitQuote ==
    /\ NothingComputed
    /\ priceList = <<>>
    /\ prices = <<>>
    /\ rankingProduct = NoProduct
    /\ marketData = SortedMarketData(QuotedResponse)
    /\ distributors = NewDistributors(QuotedResponse)
    /\ products = NewProducts(QuotedResponse)
    /\ selectedDistributors = NewDistributors(QuotedResponse)
    /\ marketMinPrices = MarketMinPricesOf(marketData, selectedDistributors)
    /\ dynamicAveragePrices
           = DynamicAveragePricesOf(marketData, selectedDistributors)
    /\ latestQuotes = QuotesOf(QuotedResponse)
    /\ allBrandPrices = initialPricesForDemo
    /\ allBrandPriceInputs = initialInputsForDemo
    /\ isSharing = FALSE
    /\ shareRun = "none"
    /\ comparisonMode = "min"
    /\ isLoading = FALSE
    /\ error = NoError
    /\ marketDate = Today
    /\ debouncedMarketDate = Today
    /\ debounceTimer = "none"
    /\ fetchEffectPending = FALSE
    /\ inFlight = <<>>
    /\ dataDate = Today
    /\ credentials = TRUE

\* the change event of the price input of a product, for the active brand
handleBrandPriceChange(brand, product, value) ==
    /\ PageShown
    /\ product \in Members(products)
    /\ LET digits == DigitsOf(value)
       IN  IF digits = <<>>
           THEN /\ allBrandPriceInputs'
                       = WithCell(allBrandPriceInputs, brand, product, <<>>)
                /\ allBrandPrices'
                       = WithCell(allBrandPrices, brand, product, Num(0))
           ELSE /\ allBrandPriceInputs'
                       = WithCell(allBrandPriceInputs, brand, product,
                                  FormattedValue(digits))
                /\ allBrandPrices'
                       = WithCell(allBrandPrices, brand, product,
                                  PriceOfDigits(digits))
    /\ UNCHANGED <<analyticVars, drawerVars, appVars, shareVars>>

\* setIsSharing in the finally block
SharingAfterNoFinally(outcome) == outcome # "resolved"
SharingAfter(outcome) == FALSE

\* a button of the share modal, enabled while isSharing is false, calls
\* executeShareAction, which runs up to its await, or to its return when
\* there is no element to capture
executeShareAction(elementToCapture) ==
    /\ PageShown
    /\ ~isSharing
    /\ IF elementToCapture = "null"
       THEN /\ shareRun' = "not run"
            /\ isSharing' = isSharing
       ELSE /\ shareRun' = "running"
            /\ isSharing' = TRUE
    /\ UNCHANGED <<analyticVars, drawerVars, appVars, brandVars>>

\* the promise of the action settles: it resolves, rejects with an error, or
\* rejects with an AbortError when the user dismisses the share sheet;
\* executeShareAction continues after its await to its end
ShareActionSettles(outcome) ==
    /\ shareRun = "running"
    /\ shareRun' = outcome
    /\ isSharing' = SharingAfter(outcome)
    /\ UNCHANGED <<analyticVars, drawerVars, appVars, brandVars>>

NextQuote ==
    \/ \E brand \in Brands : \E product \in Products : \E value \in TypedValues :
           handleBrandPriceChange(brand, product, value)
    \/ \E elementToCapture \in {"null", "element"} :
           executeShareAction(elementToCapture)
    \/ \E outcome \in {"resolved", "thrown", "aborted"} :
           ShareActionSettles(outcome)

SpecQuote == InitQuote /\ [][NextQuote]_vars

\* the promise of a share or download action settles
FairSpecQuote ==
    /\ SpecQuote
    /\ WF_vars(\E outcome \in {"resolved", "thrown", "aborted"} :
                   ShareActionSettles(outcome))

----------------------------------------------------------------------------
(* Vocabulary of the properties, stated on positions of the argument list  *)
(* rather than on the sequences the code builds.                          *)

\* positions of priceList holding a finite number
FinitePositions(list) == {i \in 1..Len(list) : list[i].k = "num"}

RECURSIVE SumAt(_, _)
SumAt(list, I) ==
    IF I = {} THEN 0
    ELSE LET i == CHOOSE j \in I : TRUE
         IN  list[i].v + SumAt(list, I \ {i})

\* the value at 0-based index j of the ascending order of the values at I
ValueAtSortedIndex(list, I, j) ==
    CHOOSE q \in {list[i].v : i \in I} :
        /\ Cardinality({i \in I : list[i].v < q}) <= j
        /\ Cardinality({i \in I : list[i].v <= q}) > j

QuartileOne(list) ==
    ValueAtSortedIndex(list, FinitePositions(list),
                       Cardinality(FinitePositions(list)) \div 4)
QuartileThree(list) ==
    ValueAtSortedIndex(list, FinitePositions(list),
                       (3 * Cardinality(FinitePositions(list))) \div 4)

\* Q1 - 1.5*IQR <= v <= Q3 + 1.5*IQR
WithinIQRBounds(list, v) ==
    LET q1 == QuartileOne(list)
        q3 == QuartileThree(list)
    IN  /\ 2 * v >= 2 * q1 - 3 * (q3 - q1)
        /\ 2 * v <= 2 * q3 + 3 * (q3 - q1)

SurvivingPositions(list) ==
    {i \in FinitePositions(list) : WithinIQRBounds(list, list[i].v)}

\* r is the mean of the values at I rounded to 3 decimals: a whole number of
\* thousandths at most half a thousandth from the mean
IsRoundedMean(r, list, I) ==
    /\ I # {}
    /\ r.k = "num"
    /\ r.v % 10 = 0
    /\ 2 * Abs(r.v * Cardinality(I) - SumAt(list, I)) <= 10 * Cardinality(I)

Averaged == op = "calculateIQRAverage"

\* C1: with at least 4 finite prices, the result is the mean, rounded to 3
\* decimals, of exactly the values v with Q1 - 1.5*IQR <= v <= Q3 + 1.5*IQR,
\* Q1 and Q3 being the values at indexes floor(n/4) and floor(3n/4) of the
\* ascending order of the finite prices.
C1_TrimmedMean ==
    (Averaged /\ Cardinality(FinitePositions(priceList)) >= 4)
        => IsRoundedMean(avgResult, priceList, SurvivingPositions(priceList))

\* a list of at least 4 finite prices one of which is trimmed has been averaged
C1_Witness ==
    /\ Averaged
    /\ Cardinality(FinitePositions(priceList)) >= 4
    /\ SurvivingPositions(priceList) # FinitePositions(priceList)
    /\ avgResult = Num(10)

\* C4: with 1, 2 or 3 finite prices, the result is the arithmetic mean of all
\* of them rounded to 3 decimals; nothing is trimmed.
C4_SmallSampleMean ==
    (Averaged /\ Cardinality(FinitePositions(priceList)) \in 1..3)
        => IsRoundedMean(avgResult, priceList, FinitePositions(priceList))

\* three finite prices whose mean is not a whole number of thousandths have
\* been averaged
C4_Witness ==
    /\ Averaged
    /\ Cardinality(FinitePositions(priceList)) = 3
    /\ SumAt(priceList, FinitePositions(priceList)) = 244
    /\ avgResult = Num(80)

\* C7: entries that are not finite numbers are discarded before anything else
\* (the result is that of the list without them), and the result is exactly 0
\* when the list is empty or holds no finite number.
C7_DiscardsNonFinite ==
    Averaged =>
        /\ avgResult = calculateIQRAverage(
                           SelectSeq(priceList, LAMBDA p : p.k = "num"))
        /\ (FinitePositions(priceList) = {} => avgResult = Num(0))
        /\ (FinitePositions(priceList) # {} =>
                \E I \in SUBSET FinitePositions(priceList) :
                    IsRoundedMean(avgResult, priceList, I))

\* a list mixing finite prices with null and other non-finite entries has
\* been averaged
C7_Witness ==
    /\ Averaged
    /\ \E i \in 1..Len(priceList) : priceList[i] = Null
    /\ \E i \in 1..Len(priceList) : priceList[i] \in {NaN, PosInfinity, Str}
    /\ Cardinality(FinitePositions(priceList)) = 2
    /\ avgResult = Num(30)

\* the list before the last entry was added, and that entry
ListBefore == SubSeq(priceList, 1, Len(priceList) - 1)
Injected == priceList[Len(priceList)]

\* the last entry x of the averaged list is an extreme value injected into a
\* list L of at least 4 valid prices: x lies outside the IQR bounds of L + x
ExtremeInjected ==
    /\ Averaged
    /\ Len(priceList) >= 5
    /\ Injected.k = "num"
    /\ Cardinality(FinitePositions(ListBefore)) >= 4
    /\ ~WithinIQRBounds(priceList, Injected.v)

\* C5 as claimed: injecting an extreme x changes the Averager's result by less
\* than it changes the simple mean.  With n values of sum S in L the simple
\* mean moves by |n*x - S| / (n*(n+1)).
C5_LessThanSimpleMean ==
    ExtremeInjected =>
        LET n == Cardinality(FinitePositions(ListBefore))
            S == SumAt(ListBefore, FinitePositions(ListBefore))
        IN  Abs(avgResult.v - calculateIQRAverage(ListBefore).v) * n * (n + 1)
                < Abs(n * Injected.v - S)

\* C5, amended: an injected extreme x is excluded from the values averaged, so
\* the result is the rounded mean of values of L alone and stays between the
\* smallest and the largest value of L (to within the rounding), however far
\* away x is.
C5_OutlierExcluded ==
    ExtremeInjected =>
        LET L == FinitePositions(ListBefore)
        IN  /\ \E I \in SUBSET L : IsRoundedMean(avgResult, priceList, I)
            /\ \E i \in L : priceList[i].v - 5 <= avgResult.v
            /\ \E i \in L : avgResult.v <= priceList[i].v + 5

\* a value far above four valid prices was injected into them and trimmed
C5_Witness ==
    /\ ExtremeInjected
    /\ Injected = Num(204)
    /\ \A i \in 1..4 : priceList[i] \in {Num(10), Num(30)}
    /\ avgResult = Num(10)

----------------------------------------------------------------------------
(* Properties of findMinPriceInfo *)

MinFound == op = "findMinPriceInfo"

\* every price of the mapping is a finite number
AllPricesNumeric == \A i \in 1..Len(prices) : prices[i].price.k = "num"

\* C3: on a non-empty distributor-to-price mapping, minPrice is the smallest
\* price and the distributor list holds exactly the distributors whose price
\* equals it, each once.
C3_MinimumAndTies ==
    (MinFound /\ Len(prices) > 0 /\ AllPricesNumeric) =>
        LET ds == minInfo.distributors
        IN  /\ \E i \in 1..Len(prices) : prices[i].price = minInfo.minPrice
            /\ \A i \in 1..Len(prices) : prices[i].price.v >= minInfo.minPrice.v
            /\ {ds[i] : i \in 1..Len(ds)} =
                   {prices[i].distributor : i \in
                       {j \in 1..Len(prices) : prices[j].price = minInfo.minPrice}}
            /\ Cardinality({ds[i] : i \in 1..Len(ds)}) = Len(ds)

\* the minimum of a mapping whose first price is not the least, and whose
\* least price is quoted by two distributors, has been found
C3_Witness ==
    /\ MinFound
    /\ Len(prices) = 3
    /\ prices[1].price = Num(30)
    /\ prices[2].price = Num(10)
    /\ prices[3].price = Num(10)
    /\ Len(minInfo.distributors) = 2

\* C6 as claimed: for a mapping that is empty or whose values are all
\* non-numeric the result is {minPrice: Infinity, distributors: []}.
C6_SentinelForNonNumeric ==
    (MinFound /\ \A i \in 1..Len(prices) : prices[i].price.k # "num")
        => minInfo = [minPrice |-> PosInfinity, distributors |-> <<>>]

\* C10: on an empty mapping the result is exactly
\* {minPrice: Infinity, distributors: []}.
C10_EmptyMapping ==
    (MinFound /\ prices = <<>>)
        => minInfo = [minPrice |-> PosInfinity, distributors |-> <<>>]

\* findMinPriceInfo has been applied to the empty mapping
C10_Witness == MinFound /\ prices = <<>> /\ minInfo.distributors = <<>>

----------------------------------------------------------------------------
(* Properties of the ranker *)

Ranked == op = "rankedPrices"

\* the entries of the ranked product, 0 entries when it is not in marketData
RankedProductEntries ==
    IF \E i \in 1..Len(marketData) : marketData[i].produto = rankingProduct
    THEN (CHOOSE pd \in {marketData[i] : i \in 1..Len(marketData)} :
              pd.produto = rankingProduct).prices
    ELSE <<>>

\* C2: ranks are contiguous integers from 1: the first entry has rank 1, two
\* entries have the same rank exactly when their prices are equal, and an
\* entry with a new price has the rank of the entry before it plus 1.
C2_DenseRanks ==
    Ranked =>
        LET r == rankedPrices
        IN  /\ Len(r) > 0 => r[1].rank = 1
            /\ \A i, j \in 1..Len(r) :
                   (r[i].rank = r[j].rank) <=> (r[i].price = r[j].price)
            /\ \A i \in 1..(Len(r) - 1) :
                   r[i + 1].rank = IF r[i + 1].price = r[i].price
                                   THEN r[i].rank ELSE r[i].rank + 1

\* three entries, two of them at the same price, have been ranked 1, 1, 2
C2_Witness ==
    /\ Ranked
    /\ Len(rankedPrices) = 3
    /\ rankedPrices[1].price = rankedPrices[2].price
    /\ rankedPrices[3].rank = 2

\* data with the entries whose price is not a number removed
WithoutNonNumeric(data) ==
    [i \in 1..Len(data) |->
        [produto |-> data[i].produto,
         prices |-> SelectSeq(data[i].prices, LAMBDA e : e.price.k = "num")]]

\* C8: an entry whose price is null, undefined or not a number is not in the
\* ranked sequence, and the sequence is the one obtained without such entries.
C8_NonNumericExcluded ==
    Ranked =>
        /\ \A i \in 1..Len(rankedPrices) : rankedPrices[i].price.k = "num"
        /\ \A i \in 1..Len(rankedPrices) :
               \E j \in 1..Len(RankedProductEntries) :
                   /\ RankedProductEntries[j].distributor = rankedPrices[i].distributor
                   /\ RankedProductEntries[j].price = rankedPrices[i].price
        /\ rankedPrices = RankedPricesOf(rankingProduct, WithoutNonNumeric(marketData))

\* a product quoted at a number by two distributors and at undefined by a
\* third has been ranked
C8_Witness ==
    /\ Ranked
    /\ Len(RankedProductEntries) = 3
    /\ \E i \in 1..3 : RankedProductEntries[i].price = Undefined
    /\ Len(rankedPrices) = 2

\* C9: the ranked sequence is ascending by price, and ranks never decrease
\* along it.
C9_SortedAscending ==
    Ranked =>
        \A i \in 1..(Len(rankedPrices) - 1) :
            /\ rankedPrices[i].price.k = "num"
            /\ rankedPrices[i + 1].price.k = "num"
            /\ rankedPrices[i].price.v <= rankedPrices[i + 1].price.v
            /\ rankedPrices[i].rank <= rankedPrices[i + 1].rank

\* a product whose prices are stored in descending order has been ranked
C9_Witness ==
    /\ Ranked
    /\ Len(RankedProductEntries) = 3
    /\ RankedProductEntries[1].price = Num(204)
    /\ RankedProductEntries[2].price = Num(30)
    /\ RankedProductEntries[3].price = Num(10)
    /\ Len(rankedPrices) = 3
    /\ rankedPrices[1].price = Num(10)

----------------------------------------------------------------------------
(* Further properties of the averager *)

\* the positions whose values the run averaged: all finite ones on the
\* small-sample and fallback paths, the surviving ones on the trimmed path
AveragedPositions ==
    IF avgRun.path = "trimmed" THEN SurvivingPositions(priceList)
    ELSE FinitePositions(priceList)

\* C12: with at least 4 valid prices all within [Q1 - 1.5*IQR, Q3 + 1.5*IQR],
\* the result is the mean of the full list rounded to 3 decimals.
C12_NoOutlierFullMean ==
    (/\ Averaged
     /\ Cardinality(FinitePositions(priceList)) >= 4
     /\ SurvivingPositions(priceList) = FinitePositions(priceList))
        => /\ IsRoundedMean(avgResult, priceList, FinitePositions(priceList))
           /\ avgRun.kept = Cardinality(FinitePositions(priceList))

\* five valid prices of three different values, none an outlier, have been
\* averaged to their mean 0.0015, returned as 0.002
C12_Witness ==
    /\ Averaged
    /\ Cardinality(FinitePositions(priceList)) = 5
    /\ SurvivingPositions(priceList) = FinitePositions(priceList)
    /\ SumAt(priceList, FinitePositions(priceList)) = 75
    /\ avgResult = Num(20)

\* C13: on every return path the result is a whole number of thousandths
\* nearest to the unrounded mean, a mean halfway between two thousandths going
\* to the one larger in magnitude.
C13_RoundedToThousandths ==
    (Averaged /\ avgRun.path # "empty") =>
        LET I == AveragedPositions
            S == SumAt(priceList, I)
            c == Cardinality(I)
        IN  /\ IsRoundedMean(avgResult, priceList, I)
            /\ (2 * Abs(avgResult.v * c - S) = 10 * c
                    => Abs(avgResult.v) * c > Abs(S))

\* a small sample whose mean is exactly half a thousandth has been rounded up
C13_Witness ==
    /\ Averaged
    /\ avgRun.path = "small"
    /\ SumAt(priceList, FinitePositions(priceList)) = 15
    /\ Cardinality(FinitePositions(priceList)) = 3
    /\ avgResult = Num(10)

\* C14: with at least 4 finite prices Q1 <= Q3, so IQR >= 0, Q1 and Q3 lie
\* within the inclusive bounds, some value survives the filter, and the
\* fallback return is not the one taken.
C14_FallbackUnreachable ==
    (Averaged /\ Cardinality(FinitePositions(priceList)) >= 4) =>
        LET iqr == avgRun.q3 - avgRun.q1
        IN  /\ avgRun.q1 <= avgRun.q3
            /\ 2 * avgRun.q1 >= 2 * avgRun.q1 - 3 * iqr
            /\ 2 * avgRun.q3 <= 2 * avgRun.q3 + 3 * iqr
            /\ avgRun.kept > 0
            /\ avgRun.path = "trimmed"
            /\ avgRun.q1 = QuartileOne(priceList)
            /\ avgRun.q3 = QuartileThree(priceList)

\* four prices given in descending order, their quartiles far apart, have been
\* averaged
C14_Witness ==
    /\ Averaged
    /\ Len(priceList) = 4
    /\ priceList[1] = Num(204)
    /\ priceList[4] = Num(-5)
    /\ avgRun.path = "trimmed"
    /\ avgRun.q1 < avgRun.q3

\* C17: when all valid prices are one value v, every one of them is averaged
\* and the result is v rounded to 3 decimals.
C17_IdenticalValues ==
    (/\ Averaged
     /\ FinitePositions(priceList) # {}
     /\ \A i, j \in FinitePositions(priceList) : priceList[i] = priceList[j])
        => LET v == priceList[CHOOSE i \in FinitePositions(priceList) : TRUE].v
           IN  /\ avgResult.v % 10 = 0
               /\ 2 * Abs(avgResult.v - v) <= 10
               /\ avgRun.kept = Cardinality(FinitePositions(priceList))
               /\ avgRun.path # "fallback"

\* five prices of 0.0204 have been averaged to 0.020
C17_Witness ==
    /\ Averaged
    /\ Len(priceList) = 5
    /\ \A i \in 1..5 : priceList[i] = Num(204)
    /\ avgRun.q1 = avgRun.q3
    /\ avgResult = Num(200)

\* C11: the ranked sequence is empty when no product is selected, when the
\* selected product is not in marketData, when its price mapping is empty and
\* when no entry of the mapping has a numeric price.
C11_NothingToRank ==
    (/\ Ranked
     /\ \/ rankingProduct = NoProduct
        \/ \A i \in 1..Len(marketData) : marketData[i].produto # rankingProduct
        \/ \A j \in 1..Len(RankedProductEntries) :
               RankedProductEntries[j].price.k # "num")
        => rankedPrices = <<>>

\* a product quoted only at null, undefined or a string, while the other
\* product of marketData has a numeric price, has been ranked
C11_Witness ==
    /\ Ranked
    /\ Len(marketData) = 2
    /\ marketData[2].produto = rankingProduct
    /\ Len(marketData[2].prices) = 2
    /\ Len(marketData[1].prices) = 1
    /\ marketData[1].prices[1].price = Num(10)
    /\ rankedPrices = <<>>

----------------------------------------------------------------------------
(* Properties of the App component *)

EntryOf(produto) ==
    marketData[CHOOSE i \in 1..Len(marketData) : marketData[i].produto = produto]

\* the prices of a product restricted to the selected distributors, in the
\* order of the product's own mapping
RestrictedToSelected(produto) ==
    SelectSeq(EntryOf(produto).prices,
              LAMBDA e : e.distributor \in Members(selectedDistributors))

\* C18: whatever selection changes and refreshes have happened, for every
\* product marketMinPrices is findMinPriceInfo of the product's prices
\* restricted to the selected distributors (the smallest of these prices and
\* exactly the selected distributors quoting it, the sentinel when there is
\* none), and the average is calculateIQRAverage of the same prices.
C18_DerivedValuesFresh ==
    /\ DOMAIN marketMinPrices = {marketData[i].produto : i \in 1..Len(marketData)}
    /\ DOMAIN dynamicAveragePrices = DOMAIN marketMinPrices
    /\ \A produto \in DOMAIN marketMinPrices :
        LET restricted == RestrictedToSelected(produto)
            info == marketMinPrices[produto]
        IN  /\ Members(info.distributors) \subseteq Members(selectedDistributors)
            /\ info.minPrice = findMinPriceInfo(restricted).minPrice
            /\ Members(info.distributors)
                   = Members(findMinPriceInfo(restricted).distributors)
            /\ Len(info.distributors) = Cardinality(Members(info.distributors))
            /\ restricted = <<>> => info = NoMinPriceInfo
            /\ \A i \in 1..Len(restricted) :
                   /\ info.minPrice.k = "num"
                   /\ info.minPrice.v <= restricted[i].price.v
                   /\ (restricted[i].distributor \in Members(info.distributors))
                          <=> (restricted[i].price = info.minPrice)
            /\ dynamicAveragePrices[produto]
                   = calculateIQRAverage(ObjectValues(restricted))

\* after a refresh the cheapest distributor of a product was unticked: the
\* minimum and the average of the product are those of the one left
C18_Witness ==
    /\ dataDate = Today
    /\ selectedDistributors = <<"Shell">>
    /\ "Etanol" \in DOMAIN marketMinPrices
    /\ PriceOf(EntryOf("Etanol").prices, "Ale") = Num(10)
    /\ marketMinPrices["Etanol"] = [minPrice |-> Num(30), distributors |-> <<"Shell">>]
    /\ dynamicAveragePrices["Etanol"] = Num(30)

\* every run of fetchAllData has finished, the last without an error
AllRunsCompleted ==
    /\ inFlight = <<>>
    /\ ~fetchEffectPending
    /\ dataDate # "none"
    /\ error = NoError

\* C19: once overlapping runs of fetchAllData have all completed, the market
\* data, products and distributors in state are those answered for the
\* debounced date, the one requested last; for a day other than today that is
\* the empty response.
C19_LatestRequestWins ==
    AllRunsCompleted =>
        /\ dataDate = debouncedMarketDate
        /\ debouncedMarketDate # Today =>
               /\ marketData = <<>>
               /\ products = <<>>
               /\ distributors = <<>>

BrandPrices == {Num(0), Num(30)}

\* C20: while the page is shown in 'min' mode, the comparison price of every
\* product of the quote table is a finite number, 0 when no selected
\* distributor quotes the product, and so is the difference to a brand price.
C20_ComparisonPriceFinite ==
    (PageShown /\ comparisonMode = "min") =>
        \A produto \in Members(products) :
            LET comparisonPrice ==
                    ComparisonPrice(comparisonMode, dynamicAveragePrices,
                                    marketMinPrices, produto)
            IN  /\ comparisonPrice.k = "num"
                /\ RestrictedToSelected(produto) = <<>>
                       => comparisonPrice = Num(0)
                /\ \A brandPrice \in BrandPrices :
                       Minus(brandPrice, comparisonPrice).k = "num"

----------------------------------------------------------------------------
(* The three computations together *)

----------------------------------------------------------------------------
(* Range of the average *)

\* C27: when the list holds a finite price, the result lies between the
\* smallest and the largest finite price of the list, to within the half
\* thousandth that rounding to 3 decimals can move it, on every return path.
C27_WithinRange ==
    (Averaged /\ FinitePositions(priceList) # {}) =>
        /\ avgResult.k = "num"
        /\ \E i \in FinitePositions(priceList) : priceList[i].v - 5 <= avgResult.v
        /\ \E i \in FinitePositions(priceList) : avgResult.v <= priceList[i].v + 5

\* a list holding null and widely spread finite prices, one of them trimmed,
\* has been averaged through the trimming path
C27_Witness ==
    /\ Averaged
    /\ avgRun.path = "trimmed"
    /\ \E i \in 1..Len(priceList) : priceList[i] = Null
    /\ \E i \in FinitePositions(priceList) : priceList[i] = Num(204)
    /\ \E i \in FinitePositions(priceList) : priceList[i] = Num(-5)
    /\ SurvivingPositions(priceList) # FinitePositions(priceList)

----------------------------------------------------------------------------
(* The ranking drawer and the selection *)

\* the entries of the ranked product that hold a number
ValidRankedEntries ==
    {RankedProductEntries[j] :
        j \in {k \in 1..Len(RankedProductEntries) :
                   RankedProductEntries[k].price.k = "num"}}

\* C28: while a product is ranked, the ranking lists every distributor of the
\* product that has a numeric price exactly once, with its own price, and no
\* other distributor, whichever distributors are selected.
C28_PermutationOfValidEntries ==
    rankingProduct # NoProduct =>
        /\ Len(rankedPrices) = Cardinality(ValidRankedEntries)
        /\ \A e \in ValidRankedEntries :
               Cardinality({i \in 1..Len(rankedPrices) :
                               rankedPrices[i].distributor = e.distributor}) = 1
        /\ \A i \in 1..Len(rankedPrices) :
               [distributor |-> rankedPrices[i].distributor,
                price |-> rankedPrices[i].price] \in ValidRankedEntries

\* a product quoted by two distributors is ranked while only one of them is
\* selected: both are in the ranking
C28_Witness ==
    /\ rankingProduct = "Etanol"
    /\ selectedDistributors = <<"Shell">>
    /\ Len(rankedPrices) = 2
    /\ rankedPrices[1].distributor = "Ale"
    /\ rankedPrices[2].distributor = "Shell"

----------------------------------------------------------------------------
(* Refreshes and the selection *)

\* run i of fetchAllData finishes in this step
RunCompletes(i) ==
    /\ i \in 1..Len(inFlight)
    /\ inFlight' = WithoutRun(inFlight, i)

\* C21: when a run of fetchAllData for today finishes while the data held is
\* already today's, the selection is exactly what it was before, an empty
\* selection included.
C21_SelectionKeptOnSameDay ==
    [][\A i \in 1..MaxInFlight :
          (RunCompletes(i) /\ inFlight[i].isToday /\ dataDate = Today)
              => selectedDistributors' = selectedDistributors]_vars

\* the (product, distributor, price) records held by marketData
QuotesHeld ==
    {[fuel_type |-> marketData[i].produto,
      distribuidora |-> marketData[i].prices[j].distributor,
      price |-> marketData[i].prices[j].price] :
        <<i, j>> \in {ij \in (1..Len(marketData)) \X (1..MaxRecords + 1) :
                         ij[2] <= Len(marketData[ij[1]].prices)}}

\* C22: marketData holds exactly the quotes of the response stored last, each
\* product once and each distributor once in a product, and products and
\* distributors are the names found in them; nothing of an earlier response
\* is left.
C22_RebuiltFromLatestResponse ==
    /\ QuotesHeld = latestQuotes
    /\ \A i, j \in 1..Len(marketData) :
           marketData[i].produto = marketData[j].produto => i = j
    /\ \A i \in 1..Len(marketData) :
           /\ marketData[i].prices # <<>>
           /\ \A j, k \in 1..Len(marketData[i].prices) :
                  marketData[i].prices[j].distributor
                      = marketData[i].prices[k].distributor => j = k
    /\ Members(products) = {q.fuel_type : q \in latestQuotes}
    /\ Members(distributors) = {q.distribuidora : q \in latestQuotes}

\* a response in which Ale quoted, and was selected, has been replaced by a
\* later response that quotes Etanol by Shell only: nothing of Ale is left
C22_Witness ==
    /\ dataDate = Today
    /\ debounceTimer = "none"
    /\ debouncedMarketDate = Today
    /\ inFlight = <<>>
    /\ error = NoError
    /\ selectedDistributors = <<"Ale">>
    /\ marketData = <<[produto |-> "Etanol",
                       prices |-> <<[distributor |-> "Shell", price |-> Num(10)]>>]>>

\* C23: every selected distributor is a distributor of the market data held.
C23_SelectedAreFetched ==
    Members(selectedDistributors) \subseteq
        {q.distribuidora : q \in QuotesHeld}

----------------------------------------------------------------------------
(* Properties of the share modal and of the brand prices *)

\* C25: a share or download action runs only while isSharing is true, and
\* isSharing is false again once it has resolved, thrown or been aborted,
\* which it eventually is; a call without an element to capture runs nothing
\* and leaves isSharing as it was, false.
C25_SharingBracketsAction ==
    /\ [](shareRun = "running" => isSharing)
    /\ [](shareRun \in {"resolved", "thrown", "aborted", "not run"} => ~isSharing)
    /\ [][shareRun' = "not run" => isSharing' = isSharing]_vars
    /\ (shareRun = "running") ~> (shareRun # "running" /\ ~isSharing)

\* a share was aborted by the user after brand prices were edited
C25_Witness ==
    /\ shareRun = "aborted"
    /\ ~isSharing
    /\ allBrandPrices # initialPricesForDemo

\* the thousandths a text of the form d or d,d.. denotes: the digit before
\* the comma counts 1000, those after it 100, 10 and 1
ThousandthsDenoted(input) ==
    IF input = <<>> THEN 0
    ELSE 1000 * DigitValue(input[1])
         + (IF Len(input) >= 3 THEN 100 * DigitValue(input[3]) ELSE 0)
         + (IF Len(input) >= 4 THEN 10 * DigitValue(input[4]) ELSE 0)
         + (IF Len(input) >= 5 THEN DigitValue(input[5]) ELSE 0)

\* the text is empty, or one digit, or one digit, a comma and `decimals`
\* digits
HasFormat(input, decimals) ==
    \/ input = <<>>
    \/ Len(input) = 1 /\ IsDigit(input[1])
    \/ /\ Len(input) - 2 \in decimals
       /\ IsDigit(input[1])
       /\ input[2] = ","
       /\ \A i \in 3..Len(input) : IsDigit(input[i])

\* input and price of every cell agree, the inputs having one of the formats
InputsAndPricesAgree(decimals) ==
    /\ DOMAIN allBrandPriceInputs = DOMAIN allBrandPrices
    /\ \A cell \in DOMAIN allBrandPrices :
           /\ HasFormat(allBrandPriceInputs[cell], decimals)
           /\ allBrandPrices[cell]
                  = Num(10 * ThousandthsDenoted(allBrandPriceInputs[cell]))

\* a step changes the input or the price of at most one cell, and removes none
OneCellPerStep ==
    [][/\ DOMAIN allBrandPrices \subseteq DOMAIN allBrandPrices'
       /\ \A c1, c2 \in DOMAIN allBrandPrices :
              (/\ <<allBrandPrices'[c1], allBrandPriceInputs'[c1]>>
                      # <<allBrandPrices[c1], allBrandPriceInputs[c1]>>
               /\ <<allBrandPrices'[c2], allBrandPriceInputs'[c2]>>
                      # <<allBrandPrices[c2], allBrandPriceInputs[c2]>>)
                  => c1 = c2
       /\ Cardinality(DOMAIN allBrandPrices' \ DOMAIN allBrandPrices) <= 1
       /\ (DOMAIN allBrandPrices' # DOMAIN allBrandPrices
              => \A c \in DOMAIN allBrandPrices :
                     /\ allBrandPrices'[c] = allBrandPrices[c]
                     /\ allBrandPriceInputs'[c] = allBrandPriceInputs[c])]_vars

\* C26 as claimed: every input is empty, 'd' or 'd,ddd', the price is the
\* number it denotes, and an edit leaves every other cell as it was.
C26_ThreeDecimalsOrNone ==
    /\ []InputsAndPricesAgree({3})
    /\ OneCellPerStep

\* C26, amended: every input is empty, one digit, or one digit, a comma and 1
\* to 3 digits; the price is the number it denotes (0 for the empty input),
\* and an edit leaves every other cell as it was.
C26_InputDenotesPrice ==
    /\ []InputsAndPricesAgree({1, 2, 3})
    /\ OneCellPerStep

\* two digits were typed for a brand without demo prices, a price with other
\* characters around it for Shell: inputs 5,2 and 5,253
C26_Witness ==
    /\ <<"Branca/Indefinida", "Etanol">> \in DOMAIN allBrandPrices
    /\ allBrandPriceInputs[<<"Branca/Indefinida", "Etanol">>] = <<"5", ",", "2">>
    /\ allBrandPrices[<<"Branca/Indefinida", "Etanol">>] = Num(52000)
    /\ allBrandPriceInputs[<<"Shell", "Etanol">>] = <<"5", ",", "2", "5", "3">>
    /\ allBrandPrices[<<"Shell", "Etanol">>] = Num(52530)
    /\ allBrandPrices[<<"Shell", "Diesel S10">>] = Num(54290)

----------------------------------------------------------------------------
(* Failed fetches *)

\* what a failed fetch has to leave alone
KeptThroughFailure ==
    <<marketData, products, distributors, selectedDistributors, allBrandPrices,
      allBrandPriceInputs>>

\* C24: a run of fetchAllData that fails sets the error and ends with
\* isLoading false, leaving market data, products, distributors, selection
\* and brand prices as they were; with the credentials missing the same holds
\* of the state of the mount; and the start of a run clears the error.
C24_FailureLeavesState ==
    /\ [](~credentials =>
              /\ error # NoError
              /\ ~isLoading
              /\ KeptThroughFailure = <<<<>>, <<>>, <<>>, <<>>, <<>>, <<>>>>)
    /\ [][\A i \in 1..MaxInFlight :
              FetchAllDataFails(i) => (error' # NoError /\ ~isLoading')]_vars
    /\ [][((\E i \in 1..MaxInFlight : RunCompletes(i)) /\ error' # error)
              => (~isLoading' /\ KeptThroughFailure' = KeptThroughFailure)]_vars
    /\ [][Len(inFlight') > Len(inFlight) => error' = NoError]_vars

\* a run failed while data, a selection and brand prices were held, a second
\* run is still under way
C24_Witness ==
    /\ error = "fetch"
    /\ ~isLoading
    /\ Len(inFlight) = 1
    /\ marketData # <<>>
    /\ selectedDistributors # <<>>
    /\ allBrandPrices = initialPricesForDemo

====
